---- MODULE Spec2Model ----
(***************************************************************************)
(* The JOS kernel monitor (kern/monitor.c): the read/dispatch loop, the    *)
(* in-place tokenizer of runcmd, mon_backtrace and mon_showmappings.       *)
(*                                                                         *)
(* A C string is a sequence of one-character strings; NUL is the           *)
(* terminator.  A pointer into the line buffer is a 1-based index, 0 is    *)
(* the null pointer.  A 32-bit address a is the record [pg, off] with      *)
(* a = pg * PGSIZE + off, arithmetic on it is modulo 2^32.                 *)
(***************************************************************************)
EXTENDS Integers, Sequences, FiniteSets, TLC

VARIABLES
    pc,       \* position of the monitor: readline, runcmd, a handler's loop, check, done
    line,     \* what readline returned last: the line, or NullLine
    buf,      \* the line buffer runcmd tokenizes in place (NUL-terminated)
    argc,     \* runcmd's argc
    argv,     \* runcmd's argv[MAXARGS]
    wmax,     \* highest index of argv written by runcmd for this line
    out,      \* what cprintf has printed since the line was read
    ret,      \* the value runcmd returned to monitor
    called,   \* the handlers invoked for this line, with their arguments
    ebp,      \* mon_backtrace: the frame cursor
    info,     \* mon_backtrace: struct Eipdebuginfo info
    mem,      \* the stack memory mon_backtrace reads, one word per address
    regebp,   \* what read_ebp() yields
    symtab,   \* the instruction addresses debuginfo_eip can resolve
    begin,    \* mon_showmappings: begin
    end,      \* mon_showmappings: end
    perm,     \* mon_showmappings: char perm[10]
    pgdir,    \* kern_pgdir: the mapped pages, page number -> page table entry
    lookups   \* number of page_lookup calls made for this line

vars == <<pc, line, buf, argc, argv, wmax, out, ret, called, ebp, info, mem,
          regebp, symtab, begin, end, perm, pgdir, lookups>>

btvars  == <<ebp, info>>
smvars  == <<begin, end, perm, lookups>>
envvars == <<mem, regebp, symtab, pgdir>>

(***************************************************************************)
(* Bounds of the model.                                                    *)
(***************************************************************************)
MaxLen    == 3    \* length of the free-form lines over Alphabet
MaxTokens == 17   \* most tokens in a generated long line
MaxFrames == 3    \* frames in the inspected stack
MaxExtra  == 4    \* most arguments given to showmappings
MaxSpan   == 3    \* most pages between the two addresses of a showmappings line

(***************************************************************************)
(* Characters and strings.                                                 *)
(***************************************************************************)
NUL == "NUL"
WHITESPACE == <<"\t", "\r", "\n", " ">>
MAXARGS == 16

NullLine == <<"NULL">>

Range(s) == {s[i] : i \in 1..Len(s)}

\* strchr(s, c) != NULL, for c != 0
strchr(s, c) == c \in Range(s)

\* the C string that starts at index p of b
RECURSIVE CStr(_, _)
CStr(b, p) == IF p > Len(b) \/ b[p] = NUL THEN <<>> ELSE <<b[p]>> \o CStr(b, p + 1)

\* a comparison that stops at the end of the first string
strcmp0_prefix(a, b) == Len(a) <= Len(b) /\ a = SubSeq(b, 1, Len(a))

\* strcmp(a, b) == 0
strcmp0(a, b) == a = b

(***************************************************************************)
(* The command table.                                                      *)
(***************************************************************************)
s_help         == <<"h", "e", "l", "p">>
s_kerninfo     == <<"k", "e", "r", "n", "i", "n", "f", "o">>
s_backtrace    == <<"b", "a", "c", "k", "t", "r", "a", "c", "e">>
s_showmappings == <<"s", "h", "o", "w", "m", "a", "p", "p", "i", "n", "g", "s">>

commands == <<
    [name |-> s_help,         desc |-> "Display this list of commands",        func |-> "mon_help"],
    [name |-> s_kerninfo,     desc |-> "Display information about the kernel", func |-> "mon_kerninfo"],
    [name |-> s_backtrace,    desc |-> "Display backtrace",                    func |-> "mon_backtrace"],
    [name |-> s_showmappings,
     desc |-> "Display mappings between physical address and virtual address",
     func |-> "mon_showmappings"] >>

(***************************************************************************)
(* runcmd: the tokenizer.  The state of the parse is the record            *)
(* [buf, p, argc, argv, wmax, toomany]; p is the C variable buf.           *)
(***************************************************************************)
ArgvInit == [i \in 0..(MAXARGS - 1) |-> -1]     \* uninitialized entries

\* argv[i] = v; a write past the array is recorded in wmax and changes no entry
ArgvStore(t, i, v) ==
    [t EXCEPT !.argv = IF i \in DOMAIN t.argv THEN [t.argv EXCEPT ![i] = v] ELSE t.argv,
              !.wmax = IF i > t.wmax THEN i ELSE t.wmax]

\* a gobble that clears one whitespace character only
GobbleOne(t) ==
    IF t.buf[t.p] # NUL /\ strchr(WHITESPACE, t.buf[t.p])
    THEN [t EXCEPT !.buf[t.p] = NUL, !.p = t.p + 1]
    ELSE t

\* while (*buf && strchr(WHITESPACE, *buf)) *buf++ = 0;
RECURSIVE Gobble(_)
Gobble(t) ==
    IF t.buf[t.p] # NUL /\ strchr(WHITESPACE, t.buf[t.p])
    THEN Gobble([t EXCEPT !.buf[t.p] = NUL, !.p = t.p + 1])
    ELSE t

\* while (*buf && !strchr(WHITESPACE, *buf)) buf++;
RECURSIVE ScanArg(_)
ScanArg(t) ==
    IF t.buf[t.p] # NUL /\ ~strchr(WHITESPACE, t.buf[t.p])
    THEN ScanArg([t EXCEPT !.p = t.p + 1])
    ELSE t

\* a capacity test that is one too late
ArgvFullLate(n) == n = MAXARGS

\* if (argc == MAXARGS-1) { "Too many arguments"; return 0; }
ArgvFull(n) == n = MAXARGS - 1

\* the while (1) loop of runcmd
RECURSIVE ParseLoop(_)
ParseLoop(t) ==
    LET g == Gobble(t) IN
    IF g.buf[g.p] = NUL THEN g
    ELSE IF ArgvFull(g.argc) THEN [g EXCEPT !.toomany = TRUE]
    ELSE ParseLoop(ScanArg([ArgvStore(g, g.argc, g.p) EXCEPT !.argc = g.argc + 1]))

\* runcmd from its entry to the end of the parse: argv[argc] = 0 before and after
Parse(b) ==
    LET t0 == ArgvStore([buf |-> b, p |-> 1, argc |-> 0, argv |-> ArgvInit,
                         wmax |-> -1, toomany |-> FALSE], 0, 0)
        t1 == ParseLoop(t0)
    IN  IF t1.toomany THEN t1 ELSE ArgvStore(t1, t1.argc, 0)

\* the strings argv[0..argc-1] point to
Tokens(b, n, av) == [i \in 1..n |-> CStr(b, av[i - 1])]

\* the first entry of commands whose name is argv[0], 0 when there is none
RECURSIVE Lookup(_, _)
Lookup(tok, i) ==
    IF i > Len(commands) THEN 0
    ELSE IF strcmp0(tok, commands[i].name) THEN i
    ELSE Lookup(tok, i + 1)

(***************************************************************************)
(* 32-bit addresses.                                                       *)
(***************************************************************************)
PGSIZE == 4096
NPAGES == 2^20                      \* 2^32 / PGSIZE

Addr(pg, off) == [pg |-> pg, off |-> off]
NoAddr == Addr(0, 0)

\* a + n modulo 2^32, for 0 <= n <= PGSIZE
AddU32(a, n) ==
    LET o == a.off + n IN Addr((a.pg + (o \div PGSIZE)) % NPAGES, o % PGSIZE)

\* a < b, unsigned
LtU32(a, b) == a.pg < b.pg \/ (a.pg = b.pg /\ a.off < b.off)

ROUNDDOWN(a) == Addr(a.pg, 0)
\* ROUNDDOWN(a + PGSIZE - 1, PGSIZE), the sum taken in uint32_t
ROUNDUP(a) == ROUNDDOWN(AddU32(a, PGSIZE - 1))

HexDigits == <<"0", "1", "2", "3", "4", "5", "6", "7", "8", "9",
               "a", "b", "c", "d", "e", "f">>
IsHex(c) == c \in Range(HexDigits)
HexVal(c) == (CHOOSE i \in 1..Len(HexDigits) : HexDigits[i] = c) - 1

\* strtol(s, &endptr, 16) cast to uint32_t: val = val * 16 + dig over the leading
\* digits; endptr is the index of the first character that is not a digit
RECURSIVE strtol16(_, _, _)
strtol16(s, i, val) ==
    IF i <= Len(s) /\ IsHex(s[i])
    THEN LET o == val.off * 16 + HexVal(s[i])
         IN  strtol16(s, i + 1, Addr((val.pg * 16 + (o \div PGSIZE)) % NPAGES, o % PGSIZE))
    ELSE [val |-> val, endptr |-> i]

strtol(s) == strtol16(s, 1, NoAddr)

\* *endptr != '\0'
Trailing(s, r) == r.endptr <= Len(s)

(***************************************************************************)
(* Page tables.  kern_pgdir maps the pages in its domain; a page table     *)
(* entry is [frame, flags], flags a subset of {PTE_P, PTE_U, PTE_W}.       *)
(***************************************************************************)
PTE_P == "PTE_P"
PTE_U == "PTE_U"
PTE_W == "PTE_W"

\* page_lookup(kern_pgdir, va, &pte_p): the page and its entry, or NULL
page_lookup(pd, va) ==
    IF va.pg \in DOMAIN pd THEN [pp |-> pd[va.pg].frame, pte |-> pd[va.pg]]
    ELSE [pp |-> -1, pte |-> [frame |-> -1, flags |-> {}]]

page2pa(pp) == Addr(pp, 0)

perm0 == <<"P", "/", "U", "/", "W">>
PERM  == <<PTE_P, PTE_U, PTE_W>>

\* !(PERM[i / 2] & pte)
LacksFlag(i, pte) == PERM[(i \div 2) + 1] \notin pte.flags

\* for (i = 0; i < perm_len; i += 2) if (!(PERM[i / 2] & pte)) perm[i] = 'X';
MarkPerm(p, pte) ==
    [k \in 1..Len(p) |->
        IF (k - 1) % 2 = 0 /\ k - 1 < Len(perm0) /\ LacksFlag(k - 1, pte) THEN "X" ELSE p[k]]

(***************************************************************************)
(* The inspected stack.  A frame is seven words: the saved frame pointer,  *)
(* the return address and five argument words.                             *)
(***************************************************************************)
FrameBytes == 4 * 7
FrameAddr(k) == k * FrameBytes
FrameAddrs == {FrameAddr(k) : k \in 1..MaxFrames}
StackWords == {FrameAddr(k) + 4 * j : k \in 1..MaxFrames, j \in 0..6}

\* the word stored at a, other than a saved frame pointer
WordAt(a) == 2^20 + a

StackOf(saved) == [a \in StackWords |-> IF a \in FrameAddrs THEN saved[a] ELSE WordAt(a)]
Stacks == {StackOf(saved) : saved \in [FrameAddrs -> FrameAddrs \cup {0}]}

ZeroInfo == [eip_file |-> 0, eip_line |-> 0, eip_fn_name |-> 0,
             eip_fn_namelen |-> 0, eip_fn_addr |-> 0, eip_fn_narg |-> 0]

\* what the symbol table holds for eip
SymOf(eip) == [eip_file |-> 1, eip_line |-> eip % 100, eip_fn_name |-> eip \div 16,
               eip_fn_namelen |-> 4, eip_fn_addr |-> eip - (eip % 16), eip_fn_narg |-> 5]

\* debuginfo_eip(eip, &info): 0 and the record filled in, or -1
debuginfo_eip(st, eip, inf) ==
    IF eip \in st THEN [rc |-> 0, info |-> SymOf(eip)] ELSE [rc |-> -1, info |-> inf]

(***************************************************************************)
(* Console output: one record per line printed.                            *)
(***************************************************************************)
HelpLines == [i \in 1..Len(commands) |->
                 [t |-> "help", name |-> commands[i].name, desc |-> commands[i].desc]]

KerninfoLines == <<[t |-> "kerninfo", sym |-> "Special kernel symbols:"],
                   [t |-> "kerninfo", sym |-> "_start"],
                   [t |-> "kerninfo", sym |-> "entry"],
                   [t |-> "kerninfo", sym |-> "etext"],
                   [t |-> "kerninfo", sym |-> "edata"],
                   [t |-> "kerninfo", sym |-> "end"],
                   [t |-> "kerninfo", sym |-> "Kernel executable memory footprint"]>>

\* a return address read one word too high
ReturnAddrOff(m, p) == m[p + 8]

\* uint32_t eip = *(ebp + 1)
ReturnAddr(m, p) == m[p + 4]

\* "ebp %08x eip %08x args" and the five words *(ebp + 2 + i)
FrameLine(p, m) ==
    [t |-> "frame", ebp |-> p, eip |-> ReturnAddr(m, p),
     args |-> [i \in 1..5 |-> m[p + 4 * (2 + (i - 1))]]]

SymLine(eip, inf) ==
    [t |-> "sym", file |-> inf.eip_file, line |-> inf.eip_line, fn |-> inf.eip_fn_name,
     len |-> inf.eip_fn_namelen, off |-> eip - inf.eip_fn_addr]

s_NULL == <<"N", "U", "L", "L">>
RowMapped(va, pa, p) == [t |-> "row", va |-> va, mapped |-> TRUE, pa |-> pa, perm |-> p]
RowNull(va)          == [t |-> "row", va |-> va, mapped |-> FALSE, pa |-> NoAddr, perm |-> s_NULL]

OfType(o, ty) == SelectSeq(o, LAMBDA r : r.t = ty)

(***************************************************************************)
(* monitor: the read loop.                                                 *)
(***************************************************************************)
\* the locals of runcmd and of the handlers, and the output of the command, are
\* dead once the loop goes round
FreshLocals ==
    /\ argc' = 0 /\ argv' = ArgvInit /\ wmax' = -1
    /\ out' = <<>> /\ called' = <<>>
    /\ ebp' = 0 /\ info' = ZeroInfo
    /\ begin' = NoAddr /\ end' = NoAddr /\ perm' = perm0 /\ lookups' = 0


\* buf = readline("K> ") returning a line
Readline(l) ==
    /\ pc = "readline"
    /\ line' = l
    /\ buf' = l \o <<NUL>>
    /\ pc' = "runcmd"
    /\ UNCHANGED <<argc, argv, wmax, out, ret, called, btvars, smvars, envvars>>

\* buf = readline("K> ") returning NULL: the loop reads again
ReadlineNull ==
    /\ pc = "readline"
    /\ line' = NullLine
    /\ buf' = <<NUL>>
    /\ pc' = "readline"
    /\ UNCHANGED <<argc, argv, wmax, out, ret, called, btvars, smvars, envvars>>

\* a loop test that also stops on 0
BreaksOnZero(r) == r <= 0

\* runcmd(buf, tf) < 0
Breaks(r) == r < 0

\* if (runcmd(buf, tf) < 0) break; otherwise the loop goes round
MonitorCheck ==
    /\ pc = "check"
    /\ IF Breaks(ret)
       THEN /\ pc' = "done"
            /\ UNCHANGED <<line, buf, argc, argv, wmax, out, called, btvars, smvars>>
       ELSE /\ pc' = "readline"
            /\ line' = <<>> /\ buf' = <<NUL>>
            /\ FreshLocals
    /\ UNCHANGED <<ret, envvars>>

(***************************************************************************)
(* runcmd: parse, look up, invoke.                                         *)
(***************************************************************************)
Invocation(i, t) ==
    [func |-> commands[i].func, argc |-> t.argc, argv |-> Tokens(t.buf, t.argc, t.argv)]

\* where runcmd stands once the line is parsed and dispatched: the parse, the
\* output so far, the handlers entered, and the next position
Dispatch(b) ==
    LET t == Parse(b)
        i == IF t.argc = 0 THEN 0 ELSE Lookup(CStr(t.buf, t.argv[0]), 1)
    IN  IF t.toomany
        THEN [t |-> t, out |-> <<[t |-> "toomany", max |-> MAXARGS]>>, called |-> <<>>,
              pc |-> "check"]
        ELSE IF t.argc = 0
        THEN [t |-> t, out |-> <<>>, called |-> <<>>, pc |-> "check"]
        ELSE IF i = 0
        THEN [t |-> t, out |-> <<[t |-> "unknown", name |-> CStr(t.buf, t.argv[0])]>>,
              called |-> <<>>, pc |-> "check"]
        ELSE [t |-> t,
              out |-> IF commands[i].func = "mon_help" THEN HelpLines
                      ELSE IF commands[i].func = "mon_kerninfo" THEN KerninfoLines
                      ELSE <<>>,
              called |-> <<Invocation(i, t)>>,
              pc |-> IF commands[i].func = "mon_backtrace" THEN "bt_entry"
                     ELSE IF commands[i].func = "mon_showmappings" THEN "sm_entry"
                     ELSE "check"]

\* runcmd up to the return of mon_help and mon_kerninfo (both return 0), or up
\* to the entry of mon_backtrace and mon_showmappings
Runcmd ==
    /\ pc = "runcmd"
    /\ LET d == Dispatch(buf) IN
        /\ buf' = d.t.buf /\ argc' = d.t.argc /\ argv' = d.t.argv /\ wmax' = d.t.wmax
        /\ out' = d.out /\ called' = d.called /\ pc' = d.pc
        /\ ret' = IF d.pc = "check" THEN 0 ELSE ret
    /\ UNCHANGED <<line, btvars, smvars, envvars>>

(***************************************************************************)
(* mon_backtrace.                                                          *)
(***************************************************************************)
WalkCap == 2 * MaxFrames     \* frames printed before the model stops following a walk

\* ebp = read_ebp(); memset(&info, 0, sizeof info);
BT_Entry ==
    /\ pc = "bt_entry"
    /\ ebp' = regebp
    /\ info' = ZeroInfo
    /\ pc' = "bt_loop"
    /\ UNCHANGED <<line, buf, argc, argv, wmax, out, ret, called, smvars, envvars>>

\* ebp = (uint32_t*)(*ebp)
NextFrame(m, p) == m[p]

\* one iteration of while (ebp)
BT_Frame ==
    /\ pc = "bt_loop"
    /\ ebp # 0
    /\ Len(OfType(out, "frame")) < WalkCap
    /\ LET eip == ReturnAddr(mem, ebp)
           r   == debuginfo_eip(symtab, eip, info)
       IN  /\ out' = out \o <<FrameLine(ebp, mem)>>
                         \o (IF r.rc = 0 THEN <<SymLine(eip, r.info)>> ELSE <<>>)
           /\ info' = r.info
    /\ ebp' = NextFrame(mem, ebp)
    /\ UNCHANGED <<pc, line, buf, argc, argv, wmax, ret, called, smvars, envvars>>

\* ebp is null: return 0
BT_Return ==
    /\ pc = "bt_loop"
    /\ ebp = 0
    /\ ret' = 0
    /\ pc' = "check"
    /\ UNCHANGED <<line, buf, argc, argv, wmax, out, called, btvars, smvars, envvars>>

(***************************************************************************)
(* mon_showmappings.                                                       *)
(***************************************************************************)
Arg(k) == CStr(buf, argv[k])

\* a usage test that forgets the upper limit
BadUsageNoUpper(n) == n = 1

\* if (argc == 1 || argc > 3)
BadUsage(n) == n = 1 \/ n > 3

\* end = begin + PGSIZE
OnePage(b) == AddU32(b, PGSIZE)

\* from the entry to the header line, or to the return on a usage or address error
SM_Entry ==
    /\ pc = "sm_entry"
    /\ perm' = perm0
    /\ IF BadUsage(argc)
       THEN /\ out' = out \o <<[t |-> "usage"]>>
            /\ ret' = 0 /\ pc' = "check"
            /\ UNCHANGED <<begin, end>>
       ELSE LET r1 == strtol(Arg(1)) IN
            IF Trailing(Arg(1), r1)
            THEN /\ begin' = ROUNDDOWN(r1.val)
                 /\ out' = out \o <<[t |-> "wrongaddr"]>>
                 /\ ret' = 0 /\ pc' = "check"
                 /\ UNCHANGED end
            ELSE IF argc = 2
            THEN /\ begin' = ROUNDDOWN(r1.val)
                 /\ end' = OnePage(ROUNDDOWN(r1.val))
                 /\ out' = out \o <<[t |-> "header"]>>
                 /\ pc' = "sm_loop"
                 /\ UNCHANGED ret
            ELSE LET r2 == strtol(Arg(2)) IN
                 IF Trailing(Arg(2), r2)
                 THEN /\ begin' = ROUNDDOWN(r1.val)
                      /\ end' = ROUNDUP(r2.val)
                      /\ out' = out \o <<[t |-> "wrongaddr"]>>
                      /\ ret' = 0 /\ pc' = "check"
                 ELSE /\ begin' = ROUNDDOWN(r1.val)
                      /\ end' = ROUNDUP(r2.val)
                      /\ out' = out \o <<[t |-> "header"]>>
                      /\ pc' = "sm_loop"
                      /\ UNCHANGED ret
    /\ UNCHANGED <<line, buf, argc, argv, wmax, called, lookups, btvars, envvars>>

\* a loop test that includes end
InRangeIncl(b, e) == ~LtU32(e, b)

\* begin < end
InRange(b, e) == LtU32(b, e)

\* one iteration of for (; begin < end; begin += PGSIZE)
SM_Row ==
    /\ pc = "sm_loop"
    /\ InRange(begin, end)
    /\ LET l == page_lookup(pgdir, begin) IN
         IF l.pp # -1
         THEN /\ perm' = MarkPerm(perm, l.pte)
              /\ out' = out \o <<RowMapped(begin, page2pa(l.pp), MarkPerm(perm, l.pte))>>
         ELSE /\ perm' = perm
              /\ out' = out \o <<RowNull(begin)>>
    /\ lookups' = lookups + 1
    /\ begin' = AddU32(begin, PGSIZE)
    /\ UNCHANGED <<pc, line, buf, argc, argv, wmax, ret, called, end, btvars, envvars>>

\* the loop is over: return 0
SM_Return ==
    /\ pc = "sm_loop"
    /\ ~InRange(begin, end)
    /\ ret' = 0
    /\ pc' = "check"
    /\ UNCHANGED <<line, buf, argc, argv, wmax, out, called, smvars, btvars, envvars>>


(***************************************************************************)
(* Inputs: the lines readline can return, the stacks and the page tables.  *)
(***************************************************************************)
Alphabet == {"a", "b", " ", "\t", "\r", "\n"}
FreeLines == UNION {[1..k -> Alphabet] : k \in 0..MaxLen}

RECURSIVE Join(_, _)
Join(ws, sep) ==
    IF Len(ws) = 0 THEN <<>>
    ELSE IF Len(ws) = 1 THEN ws[1]
    ELSE ws[1] \o sep \o Join(Tail(ws), sep)

Repeat(w, n) == [i \in 1..n |-> w]

AddrWords == { <<"0">>, <<"1", "0", "0", "0">>, <<"1", "0", "0", "1">>,
               <<"2", "f", "f", "f">>, <<"3", "0", "0", "0">>,
               <<"f", "f", "f", "f", "f", "0", "0", "0">>,
               <<"f", "f", "f", "f", "f", "f", "f", "f">>,
               <<"z", "z">>, <<"1", "0", "z", "z">> }

\* pages from the page of a up to the page that ends at or after b, not wrapped
PagesBetween(a, b) ==
    (strtol(b).val.pg + (IF strtol(b).val.off > 0 THEN 1 ELSE 0)) - strtol(a).val.pg

SMArgs ==
    {<<>>} \cup {<<a>> : a \in AddrWords}
           \cup {ab \in AddrWords \X AddrWords : PagesBetween(ab[1], ab[2]) <= MaxSpan}
           \cup {Repeat(a, n) : a \in AddrWords, n \in 3..MaxExtra}

SMLines == {Join(<<s_showmappings>> \o args, <<" ">>) : args \in SMArgs}

CommandLines ==
    { s_help, s_kerninfo, s_backtrace, s_showmappings,
      <<" ">> \o s_help \o <<"\n">>,
      s_help \o <<" ", "a">>,
      <<"H">> \o Tail(s_help),
      s_help \o <<"x">>,
      SubSeq(s_help, 1, 3),
      s_kerninfo \o <<"\t", "b">>,
      Join(<<s_showmappings, <<"1", "0", "0", "0">>, <<"3", "0", "0", "0">> >>, <<" ">>),
      Join(<<s_showmappings, <<"1", "0", "0", "0">>, <<"3", "0", "0", "0">> >>, <<"\t", " ">>),
      <<" ", " ", "a", " ", " ", " ", "b", "\t", "c", "\n">> }

LongLines ==
    {Join(<<first>> \o Repeat(<<"a">>, n - 1), sep) :
        first \in {s_help, s_showmappings, <<"b">>},
        n \in (MAXARGS - 2)..MaxTokens,
        sep \in {<<" ">>, <<"\t", " ">>}}

Lines == FreeLines \cup CommandLines \cup SMLines \cup LongLines

\* the page tables: pages 1 and 2 each unmapped or mapped present with any of
\* user and writable, the highest page unmapped or mapped
Pte(f, fl) == [frame |-> f, flags |-> fl]
PteChoices(pg) == {Pte(pg + 6, {PTE_P} \cup fl) : fl \in SUBSET {PTE_U, PTE_W}}
LowDirs == UNION {[ps -> UNION {PteChoices(pg) : pg \in ps}] : ps \in SUBSET {1, 2}}
PgDirs == {pd \in LowDirs : \A pg \in DOMAIN pd : pd[pg] \in PteChoices(pg)}
          \cup {[pg \in {NPAGES - 1} |-> Pte(5, {PTE_P, PTE_W})]}

BootPgDir == [pg \in {1, 2} |-> Pte(pg + 6, IF pg = 1 THEN {PTE_P, PTE_U} ELSE {PTE_P, PTE_W})]

\* a stack of MaxFrames frames, each called by the next, the last with a null
\* saved frame pointer
BootStack == StackOf([a \in FrameAddrs |-> IF a = FrameAddr(MaxFrames) THEN 0 ELSE a + FrameBytes])

Eips(m) == {m[a + 4] : a \in FrameAddrs}
SymTabs(m) == {{}, Eips(m), {m[FrameAddr(1) + 4]}}

(***************************************************************************)
(* Specifications.                                                         *)
(***************************************************************************)
Idle ==
    /\ line = <<>> /\ buf = <<NUL>>
    /\ argc = 0 /\ argv = ArgvInit /\ wmax = -1
    /\ out = <<>> /\ called = <<>>
    /\ ebp = 0 /\ info = ZeroInfo
    /\ begin = NoAddr /\ end = NoAddr /\ perm = perm0 /\ lookups = 0

BootEnv ==
    /\ mem = BootStack /\ regebp = FrameAddr(1) /\ symtab = Eips(BootStack)
    /\ pgdir = BootPgDir

\* monitor(tf) is entered
Init == pc = "readline" /\ ret = 0 /\ Idle /\ BootEnv

Next ==
    \/ \E l \in Lines : Readline(l)
    \/ ReadlineNull
    \/ Runcmd
    \/ MonitorCheck
    \/ BT_Entry \/ BT_Frame \/ BT_Return
    \/ SM_Entry \/ SM_Row \/ SM_Return

Spec == Init /\ [][Next]_vars

\* runcmd has parsed and dispatched line l
Dispatched(l) ==
    LET d == Dispatch(l \o <<NUL>>) IN
    /\ line = l
    /\ buf = d.t.buf /\ argc = d.t.argc /\ argv = d.t.argv /\ wmax = d.t.wmax
    /\ out = d.out /\ called = d.called /\ pc = d.pc
    /\ ret = 0
    /\ ebp = 0 /\ info = ZeroInfo
    /\ begin = NoAddr /\ end = NoAddr /\ perm = perm0 /\ lookups = 0

\* mon_backtrace is entered on any stack
InitBT ==
    /\ Dispatched(s_backtrace)
    /\ mem \in Stacks /\ regebp \in FrameAddrs /\ symtab \in SymTabs(mem)
    /\ pgdir = BootPgDir

NextBT == BT_Entry \/ BT_Frame \/ BT_Return

SpecBT == InitBT /\ [][NextBT]_vars
\* the handler runs on: no step of it is put off for ever
FairSpecBT == SpecBT /\ WF_vars(NextBT)

\* mon_showmappings is entered with any arguments on any page table
InitSM ==
    /\ \E l \in SMLines : Dispatched(l)
    /\ mem = BootStack /\ regebp = FrameAddr(1) /\ symtab = Eips(BootStack)
    /\ pgdir \in PgDirs

NextSM == SM_Entry \/ SM_Row \/ SM_Return

SpecSM == InitSM /\ [][NextSM]_vars
\* the row loop runs on: neither its next iteration nor its exit is put off for ever
FairSpecSM == SpecSM /\ WF_vars(SM_Row) /\ WF_vars(SM_Return)

\* a handler has returned r through runcmd to monitor
MaxRet == 2
HandlerRets == (-MaxRet)..MaxRet

InitMon ==
    /\ pc = "check" /\ Idle /\ BootEnv
    /\ ret \in HandlerRets

SpecMon == InitMon /\ [][Next]_vars


(***************************************************************************)
(* What the claims speak of, stated without the code's algorithms.         *)
(***************************************************************************)
IsSpace(c) == c \in {"\t", "\r", "\n", " "}

\* the maximal runs of non-whitespace characters of l, left to right
RunStarts(l) == {i \in 1..Len(l) : ~IsSpace(l[i]) /\ (i = 1 \/ IsSpace(l[i - 1]))}
RunEnd(l, i) == CHOOSE j \in i..Len(l) :
                    /\ \A k \in i..j : ~IsSpace(l[k])
                    /\ (j = Len(l) \/ IsSpace(l[j + 1]))
NthStart(l, n) == CHOOSE i \in RunStarts(l) : Cardinality({j \in RunStarts(l) : j < i}) = n - 1
Runs(l) == [n \in 1..Cardinality(RunStarts(l)) |->
               SubSeq(l, NthStart(l, n), RunEnd(l, NthStart(l, n)))]

\* runcmd has parsed the line that was read
Parsed == pc \notin {"readline", "runcmd"} /\ line \notin {<<>>, NullLine}

Names == {commands[i].name : i \in 1..Len(commands)}
FuncOf(nm) == commands[CHOOSE i \in 1..Len(commands) : commands[i].name = nm].func

\* C4: a line of at most 15 tokens is split into exactly its maximal runs of
\* non-whitespace characters, in order; no token is empty or holds a whitespace
\* character, and argc is the number of runs.
C4_TokensAreRuns ==
    (Parsed /\ Len(Runs(line)) <= 15) =>
        /\ argc = Len(Runs(line))
        /\ Tokens(buf, argc, argv) = Runs(line)
        /\ \A i \in 1..argc :
              /\ Tokens(buf, argc, argv)[i] # <<>>
              /\ \A k \in 1..Len(Tokens(buf, argc, argv)[i]) :
                    ~IsSpace(Tokens(buf, argc, argv)[i][k])
        /\ argv[argc] = 0

\* a parsed line with leading whitespace, a run of two whitespace characters
\* inside it, and at least two tokens
C4_Witness ==
    /\ Parsed /\ argc >= 2
    /\ IsSpace(line[1])
    /\ \E i \in 2..(Len(line) - 2) :
          ~IsSpace(line[i - 1]) /\ IsSpace(line[i]) /\ IsSpace(line[i + 1])

\* C5: a line of more than 15 tokens is reported as too many arguments, no
\* handler is invoked and runcmd returns 0; a line of at most 15 tokens is never
\* rejected for its argument count; argv is never written beyond index 15.
C5_TooMany ==
    /\ wmax <= MAXARGS - 1
    /\ Parsed =>
        IF Len(Runs(line)) > 15
        THEN /\ out = <<[t |-> "toomany", max |-> MAXARGS]>>
             /\ called = <<>> /\ ret = 0 /\ pc = "check"
        ELSE OfType(out, "toomany") = <<>>

\* a line of 16 tokens whose first token is a registered name was rejected
C5_Witness ==
    /\ Parsed /\ Len(Runs(line)) = 16 /\ Runs(line)[1] = s_help
    /\ OfType(out, "toomany") # <<>> /\ called = <<>>

\* what runcmd does with the parsed line, by its tokens
C6_Holds ==
    LET rs == Runs(line) IN
    IF rs = <<>>
    THEN out = <<>> /\ called = <<>> /\ ret = 0 /\ pc = "check"
    ELSE IF rs[1] \notin Names
    THEN /\ out = <<[t |-> "unknown", name |-> rs[1]]>>
         /\ called = <<>> /\ ret = 0 /\ pc = "check"
    ELSE /\ called = <<[func |-> FuncOf(rs[1]), argc |-> Len(rs), argv |-> rs]>>
         /\ OfType(out, "unknown") = <<>>

\* C6 as amended: for every line of at most 15 tokens: a blank line invokes no
\* handler, prints nothing and returns 0; a line whose first token is no
\* registered name (exact, case-sensitive) invokes no handler, reports an
\* unknown command and returns 0; a line whose first token is a registered name
\* invokes exactly that handler, once, with all the tokens.
C6_Dispatch == (Parsed /\ Len(Runs(line)) <= 15) => C6_Holds

\* C6 as claimed: the same of every line
C6_Original == Parsed => C6_Holds

\* a line whose first token differs from a registered name only in case was
\* reported as unknown, and the loop is about to continue
C6_Witness ==
    /\ Parsed /\ pc = "check" /\ ret = 0
    /\ Runs(line) = <<<<"H", "e", "l", "p">>>>
    /\ OfType(out, "unknown") # <<>> /\ called = <<>>

\* one step of the monitor, given when the check is to stop the loop
C3_Step(stops) ==
    /\ pc = "check" => ((pc' = "done") <=> stops) /\ (pc' # "done" => pc' = "readline")
    /\ pc' = "done" => pc = "check"
    /\ (pc = "readline" /\ line' = NullLine) => (pc' = "readline" /\ called' = <<>>)
    /\ pc = "done" => UNCHANGED vars

Rows == OfType(out, "row")

\* the arguments mon_showmappings was called with
SMArgv == called[1].argv

HexChars == {"0", "1", "2", "3", "4", "5", "6", "7", "8", "9", "a", "b", "c", "d", "e", "f"}
Malformed(w) == \E i \in 1..Len(w) : w[i] \notin HexChars

UsageError == Len(SMArgv) = 1 \/ Len(SMArgv) > 3
AddressError ==
    /\ Len(SMArgv) \in {2, 3}
    /\ \E k \in 2..Len(SMArgv) : Malformed(SMArgv[k])

\* C7: with no argument or more than two the usage message is printed, with a
\* malformed first or second address the wrong-address message; in both cases
\* no header and no row is printed, no page is looked up, and 0 is returned.
C7_ArgumentErrors ==
    (UsageError \/ AddressError) =>
        /\ lookups = 0 /\ Rows = <<>> /\ OfType(out, "header") = <<>>
        /\ pc \in {"sm_entry", "check"}
        /\ pc = "check" =>
              /\ ret = 0
              /\ out = IF UsageError THEN <<[t |-> "usage"]>> ELSE <<[t |-> "wrongaddr"]>>

\* two arguments, the first well-formed and the second not: wrong address
C7_Witness ==
    /\ pc = "check" /\ Len(SMArgv) = 3
    /\ ~Malformed(SMArgv[2]) /\ Malformed(SMArgv[3])
    /\ out = <<[t |-> "wrongaddr"]>> /\ lookups = 0

\* the range the arguments denote, as the handler computes it on entry
Begin0 == ROUNDDOWN(strtol(SMArgv[2]).val)
End0 == IF Len(SMArgv) = 2 THEN OnePage(Begin0) ELSE ROUNDUP(strtol(SMArgv[3]).val)
Iterations == IF LtU32(Begin0, End0) THEN End0.pg - Begin0.pg ELSE 0

C10_Inv ==
    /\ pc = "sm_loop" =>
          /\ begin.off = 0 /\ end.off = 0 /\ end = End0
          /\ begin.pg = Begin0.pg + Len(Rows)
          /\ Len(Rows) <= Iterations
          /\ lookups = Len(Rows)
    /\ (pc = "check" /\ ~UsageError /\ ~AddressError) =>
          /\ Len(Rows) = Iterations /\ ret = 0

C10_Step ==
    (pc = "sm_loop" /\ pc' = "sm_loop") =>
        /\ begin'.pg = begin.pg + 1          \* the cursor does not wrap
        /\ begin'.pg <= end.pg
        /\ Len(Rows') = Len(Rows) + 1

\* C10: the row loop ends for every begin and end the argument parsing yields:
\* both are multiples of the page size, the cursor never wraps, the loop runs
\* (end - begin) / 4096 times when begin < end and not at all otherwise, and
\* the command returns 0.
C10_LoopTerminates ==
    /\ []C10_Inv
    /\ [][C10_Step]_vars
    /\ (pc = "sm_loop") ~> (pc = "check")

\* the loop has run twice and the command has returned
C10_Witness == pc = "check" /\ Len(Rows) = 2 /\ Iterations = 2 /\ ret = 0

\* the pages of [roundDown(A), roundDown(A) + 4096), or of [roundDown(A), roundUp(B)),
\* in the integers
PagesWanted ==
    LET a == strtol(SMArgv[2]).val.pg
        n == IF Len(SMArgv) = 2 THEN 1 ELSE PagesBetween(SMArgv[2], SMArgv[3])
    IN  [i \in 1..(IF n > 0 THEN n ELSE 0) |-> Addr(a + i - 1, 0)]

\* C2: for well-formed arguments the rows printed are exactly the page-aligned
\* addresses of the range, ascending, after the header: one row for one
\* address A (also in the highest page), the pages of
\* [roundDown(A), roundUp(B)) for two.
C2_RowsAreRange ==
    (pc = "check" /\ ~UsageError /\ ~AddressError) =>
        /\ [i \in 1..Len(Rows) |-> Rows[i].va] = PagesWanted
        /\ out = <<[t |-> "header"]>> \o Rows

\* the permission string of a page table entry
PermOf(pte) == << IF PTE_P \in pte.flags THEN "P" ELSE "X", "/",
                  IF PTE_U \in pte.flags THEN "U" ELSE "X", "/",
                  IF PTE_W \in pte.flags THEN "W" ELSE "X" >>

\* C1: every row of a mapped page shows the permissions of that page's own
\* entry, whatever the rows before it showed.
C1_PermOfOwnEntry ==
    \A i \in 1..Len(Rows) :
        Rows[i].mapped => Rows[i].perm = PermOf(pgdir[Rows[i].va.pg])


(***************************************************************************)
(* mon_backtrace.                                                          *)
(***************************************************************************)
FrameLines == OfType(out, "frame")

\* the frame reached from p by following n saved frame pointers (0 once null)
RECURSIVE Hop(_, _, _)
Hop(m, p, n) == IF n = 0 \/ p = 0 THEN p ELSE Hop(m, m[p], n - 1)

\* the chain from the frame pointer register ends in a null saved frame pointer
EndsNull == \E n \in 1..MaxFrames : Hop(mem, regebp, n) = 0
ChainLen == CHOOSE n \in 1..MaxFrames : Hop(mem, regebp, n) = 0 /\ Hop(mem, regebp, n - 1) # 0
Chain == [i \in 1..ChainLen |-> Hop(mem, regebp, i - 1)]

\* the line of frame f: its pointer, the word above it, the five words above that
LineOf(f) == [t |-> "frame", ebp |-> f, eip |-> mem[f + 4],
              args |-> <<mem[f + 8], mem[f + 12], mem[f + 16], mem[f + 20], mem[f + 24]>>]

C8_Inv ==
    /\ pc = "check" =>
          /\ EndsNull /\ ret = 0
          /\ FrameLines = [i \in 1..ChainLen |-> LineOf(Chain[i])]
    /\ (pc = "bt_loop" /\ EndsNull) =>
          /\ Len(FrameLines) <= ChainLen
          /\ FrameLines = [i \in 1..Len(FrameLines) |-> LineOf(Chain[i])]
    /\ ~EndsNull => pc # "check"

C8_Step ==
    /\ mem' = mem
    /\ (pc = "bt_loop" /\ pc' = "bt_loop") => Len(FrameLines') = Len(FrameLines) + 1

\* C8: on a chain of n frames that ends in a null saved frame pointer exactly n
\* frame lines are printed, innermost first and in chain order, each with the
\* frame's pointer, its return address and five argument words; the walk then
\* returns 0; the inspected memory is never written; on a cyclic chain the
\* walk never returns.
C8_Backtrace ==
    /\ []C8_Inv
    /\ [][C8_Step]_vars
    /\ EndsNull ~> (pc = "check")

\* a chain of three frames has been walked to its end
C8_Witness == pc = "check" /\ EndsNull /\ ChainLen = 3 /\ Len(FrameLines) = 3

\* C9: whenever the resolver is about to be called, info holds all zeros.
C9_InfoZeroAtLookup == (pc = "bt_loop" /\ ebp # 0) => info = ZeroInfo

====
